---- MODULE Spec2Model ----
(***************************************************************************)
(* The update orchestrator of local_stock_db: DataScheduler                *)
(* (src/data_fetcher/scheduler.py) with the parts of DatabaseManager       *)
(* (src/database/models.py), AKShareClient                                 *)
(* (src/data_fetcher/akshare_client.py) and Config (src/config.py) that    *)
(* its handlers call.                                                      *)
(*                                                                         *)
(* Percentages are kept in tenths of a percent (5.0% is 50), so that the   *)
(* comparisons of the code are comparisons of integers.                    *)
(***************************************************************************)
EXTENDS Integers, Sequences, FiniteSets, TLC

VARIABLES
    now,                 \* datetime.now(): [day, hour, minute, second, microsecond]
    due,                 \* ids of the cron jobs whose fire time has come
    symbols_to_monitor,  \* DataScheduler.symbols_to_monitor (a Python list)
    is_running,          \* DataScheduler.is_running
    sched_state,         \* state of the BackgroundScheduler: "stopped" | "running"
    job_store,           \* ids of the jobs the BackgroundScheduler holds
    trigger_interval,    \* seconds of the trigger of job realtime_price_update
    instances,           \* job id -> executions of that job in progress
    fired,               \* job id -> executions of that job begun so far
    info_job,            \* the execution of _update_stock_info in progress
    lifecycle,           \* the caller of start()/stop(): where it is
    stock_info,          \* table stock_info: the symbols that have a row
    stock_prices,        \* table stock_prices, in rowid order
    price_history,       \* table price_history, in rowid order
    price_alerts,        \* table price_alerts, in rowid order
    faults,              \* provider/store errors the environment may still raise
    status,              \* what get_scheduler_status() returned last
    threads,             \* callers of add_symbol/remove_symbol/get_monitored_symbols
    price_log,           \* what the last run of _update_realtime_prices did
    alert_log,           \* what the last run of _monitor_alerts did
    check_log,           \* what the last run of _check_market_hours did
    info_log,            \* what the last run of _update_stock_info did
    start_log,           \* what happened during the last start()
    error_log,           \* where an error was caught, and where one got out
    config,              \* Config, as read from the environment at import
    spot_tables,         \* the tables the provider may answer a quote request with
    sweep_log,           \* what the last run of _daily_cleanup did
    web_scheduler        \* the DataScheduler of module web_app.app and its API

vars == << now, due, symbols_to_monitor, is_running, sched_state, job_store,
           trigger_interval, instances, fired, info_job, lifecycle,
           stock_info, stock_prices, price_history, price_alerts, faults,
           status, threads, price_log, alert_log, check_log, info_log,
           start_log, error_log, config, spot_tables, sweep_log, web_scheduler >>

(***************************************************************************)
(* Configuration (src/config.py) and the literals of the scheduler.        *)
(***************************************************************************)
REALTIME_UPDATE_INTERVAL == 10

OFF_MARKET_INTERVAL == 300

\* 5.0 percent, in tenths of a percent
PRICE_CHANGE_THRESHOLD == 50

DEFAULT_STOCK_SYMBOLS ==
    << "000001", "000002", "000858", "002415", "600036",
       "600519", "600887", "000858", "002142", "300750" >>

\* add_job is never given max_instances: APScheduler's default applies
MaxInstances == 1

JobIds == { "realtime_price_update", "stock_info_update", "alert_monitoring",
            "market_hours_check", "daily_cleanup" }

(***************************************************************************)
(* Bounds of the model.                                                    *)
(***************************************************************************)
\* job executions that may begin in a behaviour
MaxRuns == 2

\* provider/store errors the environment raises in a behaviour
MaxFaults == 1

\* calls each API caller thread makes
MaxCalls == 2

(***************************************************************************)
(* Sequences as Python lists.                                              *)
(***************************************************************************)
Range(seq) == { seq[i] : i \in 1..Len(seq) }

Count(seq, x) == Cardinality({ i \in 1..Len(seq) : seq[i] = x })

\* x in seq
Contains(seq, x) == \E i \in 1..Len(seq) : seq[i] = x

\* list.remove(x): deletes the first occurrence of x
RemoveFirst(seq, x) ==
    LET i == CHOOSE k \in 1..Len(seq) :
                 seq[k] = x /\ \A j \in 1..(k - 1) : seq[j] # x
    IN  SubSeq(seq, 1, i - 1) \o SubSeq(seq, i + 1, Len(seq))

(***************************************************************************)
(* Market calendar: DataScheduler._is_market_hours.                        *)
(* datetime.time values compare as (hour, minute, second, microsecond).    *)
(***************************************************************************)
TimeOf(h, m, s, us) == [hour |-> h, minute |-> m, second |-> s, microsecond |-> us]

TimeLE(a, b) ==
    \/ a.hour < b.hour
    \/ a.hour = b.hour /\ a.minute < b.minute
    \/ a.hour = b.hour /\ a.minute = b.minute /\ a.second < b.second
    \/ a.hour = b.hour /\ a.minute = b.minute /\ a.second = b.second
       /\ a.microsecond <= b.microsecond

\* datetime.weekday(): Monday is 0; day 0 of the model is a Monday
Weekday(t) == t.day % 7

IsMarketHoursNoEndpoint(t) ==
    LET current_time == TimeOf(t.hour, t.minute, t.second, t.microsecond)
    IN  IF Weekday(t) >= 5 THEN FALSE
        ELSE \/ TimeLE(TimeOf(9, 30, 0, 0), current_time)
                /\ TimeLE(current_time, TimeOf(11, 30, 0, 0))
                /\ current_time # TimeOf(11, 30, 0, 0)
             \/ TimeLE(TimeOf(13, 0, 0, 0), current_time)
                /\ TimeLE(current_time, TimeOf(15, 0, 0, 0))

IsMarketHours(t) ==
    LET current_time    == TimeOf(t.hour, t.minute, t.second, t.microsecond)
        morning_start   == TimeOf(9, 30, 0, 0)
        morning_end     == TimeOf(11, 30, 0, 0)
        afternoon_start == TimeOf(13, 0, 0, 0)
        afternoon_end   == TimeOf(15, 0, 0, 0)
    IN  IF Weekday(t) >= 5 THEN FALSE
        ELSE \/ TimeLE(morning_start, current_time) /\ TimeLE(current_time, morning_end)
             \/ TimeLE(afternoon_start, current_time) /\ TimeLE(current_time, afternoon_end)

Instant(d, h, m, s, us) ==
    [day |-> d, hour |-> h, minute |-> m, second |-> s, microsecond |-> us]

\* the instants the calendar is checked on: every hour of every day of a week,
\* around the minutes, seconds and microseconds where a session begins or ends
CalendarInstants ==
    { Instant(d, h, m, s, us) :
        d \in 0..6, h \in 0..23, m \in {0, 1, 29, 30, 31, 59},
        s \in {0, 1, 59}, us \in {0, 1, 999999} }

(***************************************************************************)
(* The state after DataScheduler.__init__ (with _setup_jobs) at instant t,  *)
(* in an environment that raises that many provider/store errors, and with *)
(* the given list in symbols_to_monitor (after construction: the default). *)
(***************************************************************************)
Threads == { "t1", "t2" }

NoStatus == [is_running |-> FALSE, monitored_symbols |-> -1, market_hours |-> FALSE]

IdleThread ==
    [pc |-> "idle", op |-> "none", arg |-> "", prev_op |-> "none", prev_arg |-> "",
     calls |-> 0, before |-> << >>, result |-> << >>, raised |-> FALSE]

NoPriceLog ==
    [runs |-> 0, open |-> FALSE, requested |-> << >>, present |-> {},
     returned |-> << >>, failed |-> {},
     snapshots |-> << >>, history |-> << >>, errors |-> 0]

NoAlertLog ==
    [runs |-> 0, examined |-> << >>, aborted |-> FALSE,
     alerts_before |-> << >>, alerts_after |-> << >>]

NoCheckLog ==
    [runs |-> 0, at |-> Instant(0, 0, 0, 0, 0), previous |-> 0, interval |-> 0]

NoInfoLog ==
    [runs |-> 0, fetched |-> << >>, upserted |-> << >>, aborted |-> FALSE,
     done |-> FALSE]

NoStartLog ==
    [starts |-> 0, at |-> Instant(0, 0, 0, 0, 0), initial_done |-> FALSE,
     jobs_during_initial |-> {}, last |-> "none", ignored |-> {}]

NoInfoJob == [idx |-> 0]

NoErrorLog == [caught |-> {}, escaped |-> {}]

\* Config with no variable set in the environment
DefaultConfig ==
    [threshold |-> PRICE_CHANGE_THRESHOLD, interval |-> REALTIME_UPDATE_INTERVAL]

\* IntervalTrigger(seconds=n): an interval of length 0 becomes one second
TriggerSeconds(n) == IF n = 0 THEN 1 ELSE n

NoSweepLog ==
    [runs |-> 0, ok |-> FALSE, at |-> Instant(0, 0, 0, 0, 0),
     history_before |-> << >>, history_after |-> << >>,
     alerts_before |-> << >>, alerts_after |-> << >>]

\* DataScheduler() over a database file that holds those history points and
\* alerts (init_database creates the tables only if they do not exist)
\* the tables ak.stock_zh_a_spot_em() may return, as change percents in
\* tenths of a percent by symbol
MarketA ==
    [s \in { "000001", "000858", "600519" } |->
        CASE s = "000001" -> 62
          [] s = "000858" -> 49
          [] OTHER -> -70]

\* changes at the threshold itself
MarketB ==
    [s \in { "000001", "000858", "600519" } |->
        CASE s = "000001" -> 50
          [] s = "000858" -> -50
          [] OTHER -> 20]

\* a response that omits two of the monitored symbols
PartialMarket == [s \in { "000858" } |-> 60]

\* rt_data.empty, or the provider call raised: get_realtime_prices returns []
EmptyMarket == [s \in {} |-> 0]

QuoteTables == { MarketA, MarketB, PartialMarket, EmptyMarket }

\* quotes for two of the symbols: a gain of 6.0% and a gain of 2.0%
MarketC ==
    [s \in { "000001", "600519" } |-> IF s = "000001" THEN 60 ELSE 20]

\* quotes for a default symbol and for a symbol that is not a default
MarketD == [s \in { "000001", "688981" } |-> 20]

\* DataScheduler() over a database file holding history and alerts, with a
\* provider that answers with one of tables
\* scheduler = DataScheduler() at the import of web_app.app: never started
\* by main.py; calls counts the requests served, status is what the status
\* route returned last
NoWebScheduler ==
    [symbols_to_monitor |-> DEFAULT_STOCK_SYMBOLS, is_running |-> FALSE,
     calls |-> 0, status |-> NoStatus]

ConstructedFor(tables, cfg, t, errors, symbols, history, alerts) ==
    /\ web_scheduler = NoWebScheduler
    /\ spot_tables = tables
    /\ config = cfg
    /\ error_log = NoErrorLog
    /\ sweep_log = NoSweepLog
    /\ now = t
    /\ due = {}
    /\ symbols_to_monitor = symbols
    /\ is_running = FALSE
    /\ sched_state = "stopped"
    /\ job_store = JobIds
    /\ trigger_interval = TriggerSeconds(cfg.interval)
    /\ instances = [j \in JobIds |-> 0]
    /\ fired = [j \in JobIds |-> 0]
    /\ info_job = NoInfoJob
    /\ lifecycle = [pc |-> "idle", idx |-> 0]
    /\ stock_info = {}
    /\ stock_prices = << >>
    /\ price_history = history
    /\ price_alerts = alerts
    /\ faults = errors
    /\ status = NoStatus
    /\ threads = [t2 \in Threads |-> IdleThread]
    /\ price_log = NoPriceLog
    /\ alert_log = NoAlertLog
    /\ check_log = NoCheckLog
    /\ info_log = NoInfoLog
    /\ start_log = NoStartLog

ConstructedOver(cfg, t, errors, symbols, history, alerts) ==
    ConstructedFor(QuoteTables, cfg, t, errors, symbols, history, alerts)

\* over a new database file
ConfiguredWith(cfg, t, errors, symbols) ==
    ConstructedOver(cfg, t, errors, symbols, << >>, << >>)

Configured(t, errors, symbols) == ConfiguredWith(DefaultConfig, t, errors, symbols)

Constructed(t, errors) == Configured(t, errors, DEFAULT_STOCK_SYMBOLS)

(***************************************************************************)
(* DataScheduler.get_scheduler_status                                      *)
(***************************************************************************)
GetSchedulerStatus ==
    /\ status' = [is_running        |-> is_running,
                  monitored_symbols |-> Len(symbols_to_monitor),
                  market_hours      |-> IsMarketHours(now)]
    /\ UNCHANGED << now, due, symbols_to_monitor, is_running, sched_state,
                    job_store, trigger_interval, instances, fired, info_job, lifecycle,
                    stock_info, stock_prices, price_history, price_alerts,
                    faults, threads, price_log, alert_log, check_log, info_log,
                    start_log, error_log, config, spot_tables, sweep_log, web_scheduler >>

(***************************************************************************)
(* The calendar alone: a scheduler constructed at any instant of           *)
(* CalendarInstants, asked for its status.                                 *)
(***************************************************************************)
InitCalendar == \E t \in CalendarInstants : Constructed(t, MaxFaults)

NextCalendar == GetSchedulerStatus

SpecCalendar == InitCalendar /\ [][NextCalendar]_vars

\* seconds since midnight
SecondOfDay(t) == t.hour * 3600 + t.minute * 60 + t.second

\* t lies in the closed window [from, to] of whole seconds
InClosedWindow(t, from, to) ==
    /\ SecondOfDay(t) >= from
    /\ \/ SecondOfDay(t) < to
       \/ SecondOfDay(t) = to /\ t.microsecond = 0

StatusTaken == status # NoStatus

\* C1: at every instant _is_market_hours is true exactly on Monday..Friday
\* within [09:30:00, 11:30:00] or [13:00:00, 15:00:00], endpoints included:
\* 09:30:00 and 11:30:00 are open, 11:30:01 is closed, Saturday and Sunday
\* are closed throughout.
C1_MarketHours ==
    StatusTaken =>
        /\ status.market_hours =
              ( /\ now.day % 7 \in 0..4
                /\ \/ InClosedWindow(now, 34200, 41400)
                   \/ InClosedWindow(now, 46800, 54000) )
        /\ (now.day % 7 \in {5, 6} => ~status.market_hours)
        /\ (now.day = 0 /\ SecondOfDay(now) = 34200 /\ now.microsecond = 0
               => status.market_hours)
        /\ (now.day = 0 /\ SecondOfDay(now) = 41400 /\ now.microsecond = 0
               => status.market_hours)
        /\ (now.day = 0 /\ SecondOfDay(now) = 41401 => ~status.market_hours)

\* the status was taken at 11:30:00.000000 on a Monday and reports an open session
C1_Witness ==
    /\ StatusTaken
    /\ now = Instant(0, 11, 30, 0, 0)
    /\ status.market_hours

(***************************************************************************)
(* The symbol registry: add_symbol, remove_symbol, get_monitored_symbols,  *)
(* called from threads that share one DataScheduler. No method takes a     *)
(* lock, so a thread may be preempted between the membership test of       *)
(* add_symbol or remove_symbol and the statement after it.                 *)
(***************************************************************************)
\* the symbols the callers pass: a default symbol listed once, the default
\* symbol listed twice, and a symbol that is not a default
ApiSymbols == { "000001", "000858", "688981" }

OrchestratorIdle ==
    UNCHANGED << now, due, is_running, sched_state, job_store, trigger_interval,
                 instances, fired, info_job, lifecycle, stock_prices,
                 price_history, price_alerts, status, price_log, alert_log,
                 check_log, info_log, start_log, error_log, config, spot_tables, sweep_log, web_scheduler >>

CanCall(t) ==
    /\ threads[t].pc \in { "idle", "returned" }
    /\ threads[t].calls < MaxCalls

Entered(t, op, symbol, pc) ==
    [threads[t] EXCEPT !.pc = pc, !.op = op, !.arg = symbol,
                       !.prev_op = threads[t].op, !.prev_arg = threads[t].arg,
                       !.calls = threads[t].calls + 1, !.raised = FALSE]

\* a caller enters add_symbol(symbol)
CallAddSymbol(t, symbol) ==
    /\ CanCall(t)
    /\ threads' = [threads EXCEPT ![t] = Entered(t, "add", symbol, "add_test")]
    /\ UNCHANGED << symbols_to_monitor, stock_info, faults >>
    /\ OrchestratorIdle

\* if symbol not in self.symbols_to_monitor
AddSymbolTest(t) ==
    /\ threads[t].pc = "add_test"
    /\ threads' = [threads EXCEPT ![t].pc =
                      IF Contains(symbols_to_monitor, threads[t].arg)
                      THEN "returned" ELSE "add_append",
                   ![t].result = symbols_to_monitor]
    /\ UNCHANGED << symbols_to_monitor, stock_info, faults >>
    /\ OrchestratorIdle

\* self.symbols_to_monitor.append(symbol)
AddSymbolAppend(t) ==
    /\ threads[t].pc = "add_append"
    /\ symbols_to_monitor' = Append(symbols_to_monitor, threads[t].arg)
    /\ threads' = [threads EXCEPT ![t].pc = "add_info"]
    /\ UNCHANGED << stock_info, faults >>
    /\ OrchestratorIdle

\* get_stock_info(symbol) and, if it returned a record, insert_stock_info:
\* the provider call may fail (get_stock_info then returns None), the insert
\* may raise a store error, which add_symbol does not catch
AddSymbolInfo(t) ==
    /\ threads[t].pc = "add_info"
    /\ \/ /\ stock_info' = stock_info \cup { threads[t].arg }
          /\ threads' = [threads EXCEPT ![t].pc = "returned"]
          /\ UNCHANGED faults
       \/ /\ faults > 0
          /\ faults' = faults - 1
          /\ \E raised \in BOOLEAN :
                threads' = [threads EXCEPT ![t].pc = "returned", ![t].raised = raised]
          /\ UNCHANGED stock_info
    /\ UNCHANGED symbols_to_monitor
    /\ OrchestratorIdle

\* a caller enters remove_symbol(symbol)
CallRemoveSymbol(t, symbol) ==
    /\ CanCall(t)
    /\ threads' = [threads EXCEPT ![t] = Entered(t, "remove", symbol, "remove_test")]
    /\ UNCHANGED << symbols_to_monitor, stock_info, faults >>
    /\ OrchestratorIdle

\* if symbol in self.symbols_to_monitor
RemoveSymbolTest(t) ==
    /\ threads[t].pc = "remove_test"
    /\ threads' = [threads EXCEPT ![t].pc =
                      IF Contains(symbols_to_monitor, threads[t].arg)
                      THEN "remove_do" ELSE "returned",
                   ![t].before = symbols_to_monitor,
                   ![t].result = symbols_to_monitor]
    /\ UNCHANGED << symbols_to_monitor, stock_info, faults >>
    /\ OrchestratorIdle

\* self.symbols_to_monitor.remove(symbol): ValueError if another caller has
\* removed it since the test
RemoveSymbolDo(t) ==
    /\ threads[t].pc = "remove_do"
    /\ IF Contains(symbols_to_monitor, threads[t].arg)
       THEN /\ symbols_to_monitor' = RemoveFirst(symbols_to_monitor, threads[t].arg)
            /\ threads' = [threads EXCEPT ![t].pc = "returned",
                              ![t].before = symbols_to_monitor,
                              ![t].result = symbols_to_monitor']
       ELSE /\ threads' = [threads EXCEPT ![t].pc = "returned", ![t].raised = TRUE,
                              ![t].before = symbols_to_monitor,
                              ![t].result = symbols_to_monitor]
            /\ UNCHANGED symbols_to_monitor
    /\ UNCHANGED << stock_info, faults >>
    /\ OrchestratorIdle

\* get_monitored_symbols(): return self.symbols_to_monitor.copy()
GetMonitoredSymbols(t) ==
    /\ CanCall(t)
    /\ threads' = [threads EXCEPT ![t] =
                      [Entered(t, "list", "", "returned")
                          EXCEPT !.result = symbols_to_monitor]]
    /\ UNCHANGED << symbols_to_monitor, stock_info, faults >>
    /\ OrchestratorIdle

InitRegistry == Constructed(Instant(0, 10, 0, 0, 0), MaxFaults)

NextRegistry ==
    \E t \in Threads :
        \/ \E symbol \in ApiSymbols : CallAddSymbol(t, symbol)
        \/ AddSymbolTest(t)
        \/ AddSymbolAppend(t)
        \/ AddSymbolInfo(t)
        \/ \E symbol \in ApiSymbols : CallRemoveSymbol(t, symbol)
        \/ RemoveSymbolTest(t)
        \/ RemoveSymbolDo(t)
        \/ GetMonitoredSymbols(t)

SpecRegistry == InitRegistry /\ [][NextRegistry]_vars

\* C3: in every reachable state the Monitoring Set holds no symbol more than once.
C3_NoDuplicateSymbols ==
    \A i, j \in 1..Len(symbols_to_monitor) :
        symbols_to_monitor[i] = symbols_to_monitor[j] => i = j

\* C4: add(symbol) followed immediately by list() returns a sequence holding
\* that symbol exactly once, whatever the other callers do meanwhile.
C4_AddThenListOnce ==
    \A t \in Threads :
        ( /\ threads[t].pc = "returned"
          /\ threads[t].op = "list"
          /\ threads[t].prev_op = "add" )
        => Count(threads[t].result, threads[t].prev_arg) = 1

\* C5: when remove_symbol(s) returns, s is not in what get_monitored_symbols
\* returns and every other symbol is a member exactly if it was one before.
C5_RemoveDeletes ==
    \A t \in Threads :
        ( /\ threads[t].pc = "returned"
          /\ threads[t].op = "remove"
          /\ ~threads[t].raised )
        => /\ ~Contains(threads[t].result, threads[t].arg)
           /\ \A s \in (Range(threads[t].before) \cup Range(threads[t].result))
                       \ { threads[t].arg } :
                 Contains(threads[t].before, s) = Contains(threads[t].result, s)

(***************************************************************************)
(* The data source: AKShareClient.get_realtime_prices. The provider's      *)
(* table rt_data maps the symbols it lists to their change percent; the    *)
(* other columns of a quote are copied to the store unchanged and are left *)
(* out.                                                                    *)
(***************************************************************************)
\* one record for every element of symbols that rt_data lists, in list order
GetRealtimePrices(rt_data, symbols) ==
    LET listed == SelectSeq(symbols, LAMBDA s : s \in DOMAIN rt_data)
    IN  [i \in 1..Len(listed) |->
            [symbol |-> listed[i], change_percent |-> rt_data[listed[i]]]]

(***************************************************************************)
(* The store: DatabaseManager over SQLite.                                 *)
(***************************************************************************)
\* datetime.now() is the wall clock of the exchange (the sessions of
\* _is_market_hours are Chinese market hours): UTC+8
UtcOffsetHours == 8

\* the wall clock reading of t, in whole seconds
LocalSeconds(t) == t.day * 86400 + t.hour * 3600 + t.minute * 60 + t.second

\* CURRENT_TIMESTAMP at t: the UTC date and time, in whole seconds
Stamp(t) == LocalSeconds(t) - UtcOffsetHours * 3600

\* the rows of seq before the first position in failed
WrittenUntilFailure(seq, failed) ==
    SubSeq(seq, 1, IF failed \cap (1..Len(seq)) = {} THEN Len(seq)
                   ELSE (CHOOSE i \in failed \cap (1..Len(seq)) :
                            \A j \in failed \cap (1..Len(seq)) : i <= j) - 1)

\* the rows of seq whose positions are not in failed, in order
Written(seq, failed) ==
    LET kept == SelectSeq([i \in 1..Len(seq) |-> i], LAMBDA i : i \notin failed)
    IN  [k \in 1..Len(kept) |-> seq[kept[k]]]

\* the symbols of rows, in order
SymbolsOf(rows) == [i \in 1..Len(rows) |-> rows[i].symbol]

\* the subsets of S of at most k elements
RECURSIVE UpTo(_, _)
UpTo(S, k) ==
    IF k = 0 THEN { {} }
    ELSE UpTo(S, k - 1) \cup { T \cup { x } : T \in UpTo(S, k - 1), x \in S }

\* positions of rows (rowid order) sorted by change_percent descending
RECURSIVE OrderByChangeDesc(_, _)
OrderByChangeDesc(rows, positions) ==
    IF positions = {} THEN << >>
    ELSE LET first == CHOOSE i \in positions :
                          \A j \in positions :
                              \/ rows[i].change_percent > rows[j].change_percent
                              \/ rows[i].change_percent = rows[j].change_percent
                                 /\ i <= j
         IN  << rows[first] >> \o OrderByChangeDesc(rows, positions \ { first })

\* get_latest_prices(symbols): the rows of stock_prices joined with
\* stock_info whose timestamp is the greatest of their symbol, restricted to
\* symbols unless that list is empty
GetLatestPrices(symbols) ==
    LET latest == { i \in 1..Len(stock_prices) :
                      /\ stock_prices[i].symbol \in stock_info
                      /\ symbols # << >> => stock_prices[i].symbol \in Range(symbols)
                      /\ \A j \in 1..Len(stock_prices) :
                            stock_prices[j].symbol = stock_prices[i].symbol
                            => stock_prices[j].timestamp <= stock_prices[i].timestamp }
    IN  OrderByChangeDesc(stock_prices, latest)

Abs(x) == IF x < 0 THEN -x ELSE x

(***************************************************************************)
(* The wall clock. The orchestrator is followed over the instants of       *)
(* Timeline: a Monday morning around the opening at 09:30 and the end of   *)
(* the morning session at 11:30, and the next night at 03:00.              *)
(***************************************************************************)
Timeline ==
    << Instant(0, 9, 28, 30, 0), Instant(0, 9, 29, 0, 0), Instant(0, 9, 30, 0, 0),
       Instant(0, 9, 30, 30, 0), Instant(0, 11, 30, 0, 0), Instant(0, 11, 30, 0, 1),
       Instant(0, 11, 31, 0, 0), Instant(1, 3, 0, 0, 0) >>

MinuteOf(t) == << t.day, t.hour, t.minute >>

\* CronTrigger(second=0) fires at the start of every minute,
\* CronTrigger(hour=3, minute=0) at the start of minute 03:00
CronDue(t) ==
    { "market_hours_check" }
        \cup (IF t.hour = 3 /\ t.minute = 0 THEN { "daily_cleanup" } ELSE {})

registry_vars == << symbols_to_monitor, threads >>

table_vars == << stock_info, stock_prices, price_history, price_alerts >>

log_vars == << price_log, alert_log, check_log, info_log, start_log >>

\* Time passes to the next instant. When a minute begins while the scheduler
\* runs, the cron jobs of that minute come due; the session check, which
\* makes no provider or store call, has run before its minute is over.
Advance ==
    \E i \in 1..(Len(Timeline) - 1) :
        /\ now = Timeline[i]
        /\ now' = Timeline[i + 1]
        /\ IF MinuteOf(Timeline[i + 1]) # MinuteOf(now)
           THEN /\ "market_hours_check" \notin due
                /\ instances["market_hours_check"] = 0
                /\ due' = IF sched_state = "running"
                          THEN CronDue(Timeline[i + 1]) \cap job_store
                          ELSE {}
           ELSE UNCHANGED due
        /\ UNCHANGED << is_running, sched_state, job_store, trigger_interval,
                        instances, fired, info_job, lifecycle, faults, status >>
        /\ UNCHANGED << registry_vars, table_vars, log_vars >>
        /\ UNCHANGED << error_log, config, spot_tables, sweep_log, web_scheduler >>

(***************************************************************************)
(* Errors. A provider error is caught in AKShareClient (get_stock_info     *)
(* returns None, get_realtime_prices returns []). A store error is raised  *)
(* into the handler that made the call; it is caught there if the call     *)
(* lies in a try/except Exception of that handler.                         *)
(***************************************************************************)
CaughtExceptInCleanup(site) ==
    site \in { "get_stock_info", "get_realtime_prices", "start",
               "realtime_price_update", "stock_info_update", "alert_monitoring" }

Caught(site) ==
    site \in { "get_stock_info", "get_realtime_prices", "start",
               "realtime_price_update", "stock_info_update", "alert_monitoring",
               "daily_cleanup" }

\* error_log after an error at that site
Raised(site) ==
    IF Caught(site)
    THEN [error_log EXCEPT !.caught = @ \cup { site }]
    ELSE [error_log EXCEPT !.escaped = @ \cup { site }]

(***************************************************************************)
(* DataScheduler.start and DataScheduler.stop, called by one caller.       *)
(***************************************************************************)
\* starts ever made in a behaviour
MaxStarts == 2

\* start(): if not running, self.scheduler.start(), is_running = True, and
\* the caller enters _initial_stock_info_update
StartUnguarded == TRUE

\* if not self.is_running
StartIsEffective == ~is_running

StartCall ==
    /\ lifecycle.pc = "idle"
    /\ start_log.starts < MaxStarts
    /\ IF StartIsEffective
       THEN /\ sched_state' = "running"
            /\ is_running' = TRUE
            /\ lifecycle' = [pc |-> "initial", idx |-> 1]
            /\ start_log' = [start_log EXCEPT !.starts = @ + 1, !.at = now,
                                !.initial_done = FALSE,
                                !.jobs_during_initial = {},
                                !.last = "start"]
       ELSE /\ start_log' = [start_log EXCEPT !.starts = @ + 1,
                                !.ignored = @ \cup { "start" }]
            /\ UNCHANGED << sched_state, is_running, lifecycle >>
    /\ UNCHANGED << now, due, job_store, trigger_interval, instances, fired,
                    info_job, faults, status, price_log, alert_log, check_log,
                    info_log >>
    /\ UNCHANGED << registry_vars, table_vars >>
    /\ UNCHANGED << error_log, config, spot_tables, sweep_log, web_scheduler >>

\* One turn of the loop of _initial_stock_info_update over the live list:
\* get_stock_info (None when the provider fails), insert_stock_info (a store
\* error is caught inside the loop), then the next symbol; after the last
\* symbol start() returns.
InitialStockInfoUpdate ==
    /\ lifecycle.pc = "initial"
    /\ IF lifecycle.idx <= Len(symbols_to_monitor)
       THEN /\ lifecycle' = [lifecycle EXCEPT !.idx = @ + 1]
            /\ \/ /\ stock_info' = stock_info \cup { symbols_to_monitor[lifecycle.idx] }
                  /\ UNCHANGED << faults, error_log >>
               \/ /\ faults > 0
                  /\ faults' = faults - 1
                  /\ \E site \in { "get_stock_info", "start" } :
                        error_log' = Raised(site)
                  /\ UNCHANGED stock_info
            /\ UNCHANGED start_log
       ELSE /\ lifecycle' = [pc |-> "idle", idx |-> 0]
            /\ start_log' = [start_log EXCEPT !.initial_done = TRUE]
            /\ UNCHANGED << stock_info, faults, error_log >>
    /\ UNCHANGED << now, due, is_running, sched_state, job_store, trigger_interval,
                    instances, fired, info_job, status, stock_prices,
                    price_history, price_alerts, price_log, alert_log,
                    check_log, info_log >>
    /\ UNCHANGED registry_vars
    /\ UNCHANGED << config, spot_tables, sweep_log, web_scheduler >>

\* stop(): if running, self.scheduler.shutdown(), which takes no new job and
\* waits for the executions in progress
StopCall ==
    /\ lifecycle.pc = "idle"
    /\ is_running
    /\ sched_state' = "stopped"
    /\ due' = {}
    /\ lifecycle' = [pc |-> "stopping", idx |-> 0]
    /\ start_log' = [start_log EXCEPT !.last = "stop"]
    /\ UNCHANGED << now, is_running, job_store, trigger_interval, instances,
                    fired, info_job, faults, status >>
    /\ UNCHANGED << registry_vars, table_vars >>
    /\ UNCHANGED << price_log, alert_log, check_log, info_log >>
    /\ UNCHANGED << error_log, config, spot_tables, sweep_log, web_scheduler >>

\* stop() while not running: the test of is_running fails and stop() returns
StopIgnored ==
    /\ lifecycle.pc = "idle"
    /\ ~is_running
    /\ start_log' = [start_log EXCEPT !.ignored = @ \cup { "stop" }]
    /\ UNCHANGED << now, due, is_running, sched_state, job_store,
                    trigger_interval, instances, fired, info_job, lifecycle,
                    faults, status >>
    /\ UNCHANGED << registry_vars, table_vars >>
    /\ UNCHANGED << price_log, alert_log, check_log, info_log >>
    /\ UNCHANGED << error_log, config, spot_tables, sweep_log, web_scheduler >>

ShutdownNoWait == TRUE

\* shutdown(wait=True), the default: the executor joins its running jobs
ShutdownMayReturn == \A j \in JobIds : instances[j] = 0

\* shutdown() returns once no execution is in progress; the memory job store
\* drops its jobs on shutdown; then is_running = False
StopReturn ==
    /\ lifecycle.pc = "stopping"
    /\ ShutdownMayReturn
    /\ job_store' = {}
    /\ is_running' = FALSE
    /\ lifecycle' = [pc |-> "idle", idx |-> 0]
    /\ UNCHANGED << now, due, sched_state, trigger_interval, instances, fired,
                    info_job, faults, status >>
    /\ UNCHANGED << registry_vars, table_vars, log_vars >>
    /\ UNCHANGED << error_log, config, spot_tables, sweep_log, web_scheduler >>

(***************************************************************************)
(* The scheduler submits a job: _setup_jobs registers the five jobs with   *)
(* add_job and the default max_instances, so a job whose execution is in   *)
(* progress is not submitted again.                                        *)
(***************************************************************************)
IntervalJobs == { "realtime_price_update", "stock_info_update", "alert_monitoring" }

Runs ==
    fired["realtime_price_update"] + fired["stock_info_update"]
        + fired["alert_monitoring"] + fired["market_hours_check"]
        + fired["daily_cleanup"]

CanSubmitOverlapping(job) == TRUE

CanSubmit(job) == instances[job] < MaxInstances

Submit(job) ==
    /\ sched_state = "running"
    /\ job \in job_store
    /\ CanSubmit(job)
    /\ Runs < MaxRuns
    /\ job \in IntervalJobs \/ job \in due
    /\ due' = due \ { job }
    /\ instances' = [instances EXCEPT ![job] = @ + 1]
    /\ fired' = [fired EXCEPT ![job] = @ + 1]
    /\ IF job = "stock_info_update"
       THEN /\ info_job' = [idx |-> 1]
            /\ info_log' = [runs |-> info_log.runs + 1, fetched |-> << >>,
                            upserted |-> << >>, aborted |-> FALSE, done |-> FALSE]
       ELSE UNCHANGED << info_job, info_log >>
    /\ start_log' = IF lifecycle.pc = "initial"
                    THEN [start_log EXCEPT !.jobs_during_initial = @ \cup { job }]
                    ELSE start_log
    /\ UNCHANGED << now, is_running, sched_state, job_store, trigger_interval,
                    lifecycle, faults, status, price_log, alert_log, check_log >>
    /\ UNCHANGED << registry_vars, table_vars >>
    /\ UNCHANGED << error_log, config, spot_tables, sweep_log, web_scheduler >>

Finished(job) == instances' = [instances EXCEPT ![job] = @ - 1]

(***************************************************************************)
(* The job bodies. An execution in progress completes with its body.       *)
(***************************************************************************)
HistorySkippedOnOwnError(no_snapshot, no_history) == no_history

\* the positions of the returned records that get no history point: those
\* whose insert_price_data raised, the call of _update_price_history coming
\* after it in the same try, and those whose history insert raised
HistorySkipped(no_snapshot, no_history) == no_snapshot \cup no_history

TickNeverSkipped(t) == FALSE

\* if not self._is_market_hours(): return
TickSkipped(t) == ~IsMarketHours(t)

\* _update_realtime_prices with _update_price_history: nothing outside
\* market hours or for an empty result; otherwise for every returned record
\* insert_price_data and then the history insert. A store error on the
\* snapshot skips that record's history; a store error on the history
\* insert is caught inside _update_price_history.
UpdateRealtimePrices ==
    /\ instances["realtime_price_update"] > 0
    /\ Finished("realtime_price_update")
    /\ IF TickSkipped(now)
       THEN /\ price_log' = [NoPriceLog EXCEPT !.runs = price_log.runs + 1,
                                !.requested = symbols_to_monitor]
            /\ UNCHANGED << stock_prices, price_history, faults, error_log >>
       ELSE \E rt_data \in spot_tables :
            \E prices \in { GetRealtimePrices(rt_data, symbols_to_monitor) } :
            \E failed \in UpTo((1..Len(prices)) \X { "snapshot", "history" }, faults) :
              LET rows == [i \in 1..Len(prices) |->
                             [symbol         |-> prices[i].symbol,
                              change_percent |-> prices[i].change_percent,
                              timestamp      |-> Stamp(now)]]
                  no_snapshot == { i \in 1..Len(prices) : << i, "snapshot" >> \in failed }
                  no_history  == { i \in 1..Len(prices) : << i, "history" >> \in failed }
              IN  /\ no_snapshot \cap no_history = {}
                  /\ \E snapshots \in { Written(rows, no_snapshot) },
                        history \in { Written(rows, HistorySkipped(no_snapshot, no_history)) } :
                        /\ stock_prices' = stock_prices \o snapshots
                        /\ price_history' = price_history \o history
                        /\ price_log' = [runs      |-> price_log.runs + 1,
                                         open      |-> TRUE,
                                         requested |-> symbols_to_monitor,
                                         present   |-> DOMAIN rt_data,
                                         returned  |-> SymbolsOf(prices),
                                         failed    |-> failed,
                                         snapshots |-> SymbolsOf(snapshots),
                                         history   |-> SymbolsOf(history),
                                         errors    |-> Cardinality(failed)]
                  /\ faults' = faults - Cardinality(failed)
                  /\ error_log' = IF failed = {} THEN error_log
                                  ELSE Raised("realtime_price_update")
    /\ UNCHANGED << now, due, is_running, sched_state, job_store, trigger_interval,
                    fired, info_job, lifecycle, status, stock_info, price_alerts,
                    alert_log, check_log, info_log, start_log >>
    /\ UNCHANGED registry_vars
    /\ UNCHANGED << config, spot_tables, sweep_log, web_scheduler >>

\* One turn of the loop of _update_stock_info over the live list, which sleeps
\* between symbols: get_stock_info (None when the provider fails), then
\* insert_stock_info, whose store error leaves the loop for the handler around
\* it; the execution ends after the last symbol or with that error.
UpdateStockInfo ==
    /\ instances["stock_info_update"] > 0
    /\ IF info_job.idx <= Len(symbols_to_monitor)
       THEN LET symbol == symbols_to_monitor[info_job.idx]
            IN  \/ /\ stock_info' = stock_info \cup { symbol }
                   /\ info_job' = [idx |-> info_job.idx + 1]
                   /\ info_log' = [info_log EXCEPT !.fetched = Append(@, symbol),
                                                   !.upserted = Append(@, symbol)]
                   /\ UNCHANGED << faults, instances, error_log >>
                \/ /\ faults > 0
                   /\ faults' = faults - 1
                   /\ error_log' = Raised("get_stock_info")
                   /\ info_job' = [idx |-> info_job.idx + 1]
                   /\ info_log' = [info_log EXCEPT !.fetched = Append(@, symbol)]
                   /\ UNCHANGED << stock_info, instances >>
                \/ /\ faults > 0
                   /\ faults' = faults - 1
                   /\ error_log' = Raised("stock_info_update")
                   /\ Finished("stock_info_update")
                   /\ info_job' = NoInfoJob
                   /\ info_log' = [info_log EXCEPT !.fetched = Append(@, symbol),
                                                   !.aborted = TRUE, !.done = TRUE]
                   /\ UNCHANGED stock_info
       ELSE /\ Finished("stock_info_update")
            /\ info_job' = NoInfoJob
            /\ info_log' = [info_log EXCEPT !.done = TRUE]
            /\ UNCHANGED << stock_info, faults, error_log >>
    /\ UNCHANGED << now, due, is_running, sched_state, job_store, trigger_interval,
                    fired, lifecycle, status, stock_prices, price_history,
                    price_alerts, price_log, alert_log, check_log, start_log >>
    /\ UNCHANGED registry_vars
    /\ UNCHANGED << config, spot_tables, sweep_log, web_scheduler >>

ExceedsThresholdStrictly(change_percent) ==
    Abs(change_percent) > config.threshold

\* abs(price_data['change_percent']) >= Config.PRICE_CHANGE_THRESHOLD
ExceedsThreshold(change_percent) ==
    Abs(change_percent) >= config.threshold

\* 'gain' if price_data['change_percent'] > 0 else 'loss'
AlertType(change_percent) == IF change_percent > 0 THEN "gain" ELSE "loss"

\* the row insert_price_alert writes for a snapshot
AlertRow(price_data, at) ==
    [symbol         |-> price_data.symbol,
     alert_type     |-> AlertType(price_data.change_percent),
     threshold      |-> config.threshold,
     current_change |-> price_data.change_percent,
     triggered_at   |-> Stamp(at)]

\* _monitor_alerts: for every latest snapshot in turn, an alert row if the
\* change exceeds the threshold. A store error on an insert leaves the loop
\* for the handler around it: the snapshots before position stop (0: none
\* failed) have been examined.
MonitorAlerts ==
    /\ instances["alert_monitoring"] > 0
    /\ Finished("alert_monitoring")
    /\ \E latest_prices \in { GetLatestPrices(symbols_to_monitor) } :
         LET alerting == { i \in 1..Len(latest_prices) :
                             ExceedsThreshold(latest_prices[i].change_percent) }
         IN  \E stop \in { 0 } \cup (IF faults > 0 THEN alerting ELSE {}) :
             \E examined \in { IF stop = 0 THEN latest_prices
                                ELSE SubSeq(latest_prices, 1, stop - 1) } :
               LET skipped == { i \in 1..Len(examined) : i \notin alerting }
                   alerts  == [i \in 1..Len(examined) |-> AlertRow(examined[i], now)]
               IN  /\ price_alerts' = price_alerts \o Written(alerts, skipped)
                   /\ faults' = IF stop = 0 THEN faults ELSE faults - 1
                   /\ error_log' = IF stop = 0 THEN error_log
                                   ELSE Raised("alert_monitoring")
                   /\ alert_log' = [runs          |-> alert_log.runs + 1,
                                    examined      |-> examined,
                                    aborted       |-> stop # 0,
                                    alerts_before |-> price_alerts,
                                    alerts_after  |-> price_alerts']
    /\ UNCHANGED << now, due, is_running, sched_state, job_store, trigger_interval,
                    fired, info_job, lifecycle, status, stock_info, stock_prices,
                    price_history, price_log, check_log, info_log, start_log >>
    /\ UNCHANGED registry_vars
    /\ UNCHANGED << config, spot_tables, sweep_log, web_scheduler >>

AdjustedIntervalOpenOnly(is_market_open, interval) ==
    IF is_market_open THEN TriggerSeconds(config.interval) ELSE interval

\* the interval of the price job's trigger after _check_market_hours:
\* job.modify(trigger=...) when it differs from the one of the session state
AdjustedInterval(is_market_open, interval) ==
    IF is_market_open
    THEN IF interval # config.interval
         THEN TriggerSeconds(config.interval) ELSE interval
    ELSE IF interval # OFF_MARKET_INTERVAL
         THEN OFF_MARKET_INTERVAL ELSE interval

\* _check_market_hours
CheckMarketHours ==
    /\ instances["market_hours_check"] > 0
    /\ Finished("market_hours_check")
    /\ IF "realtime_price_update" \in job_store
       THEN trigger_interval' = AdjustedInterval(IsMarketHours(now), trigger_interval)
       ELSE UNCHANGED trigger_interval
    /\ check_log' = [runs |-> check_log.runs + 1, at |-> now,
                     previous |-> trigger_interval, interval |-> trigger_interval']
    /\ UNCHANGED << now, due, is_running, sched_state, job_store, fired, info_job,
                    lifecycle, faults, status, price_log, alert_log, info_log,
                    start_log >>
    /\ UNCHANGED << registry_vars, table_vars >>
    /\ UNCHANGED << error_log, config, spot_tables, sweep_log, web_scheduler >>

HistoryRetentionDays == 30

AlertRetentionDays == 7

\* timestamp < ? with ? bound to datetime.now() - timedelta(days): the text
\* 'YYYY-MM-DD HH:MM:SS' that CURRENT_TIMESTAMP wrote is compared with the
\* text of the local date and time, which carries microseconds unless they
\* are zero
StampBeforeCutoff(stamp, at, days) ==
    LET cutoff == LocalSeconds(at) - days * 86400
    IN  \/ stamp < cutoff
        \/ stamp = cutoff /\ at.microsecond > 0

SweptOldestToo(rows, at) == IF rows = << >> THEN rows ELSE Tail(rows)

\* DELETE FROM price_history WHERE timestamp < thirty_days_ago
SweptHistory(rows, at) ==
    SelectSeq(rows, LAMBDA r : ~StampBeforeCutoff(r.timestamp, at, HistoryRetentionDays))

\* DELETE FROM price_alerts WHERE triggered_at < seven_days_ago
SweptAlerts(rows, at) ==
    SelectSeq(rows, LAMBDA r : ~StampBeforeCutoff(r.triggered_at, at, AlertRetentionDays))

\* _daily_cleanup: both deletes in one transaction; a store error rolls it back
DailyCleanup ==
    /\ instances["daily_cleanup"] > 0
    /\ Finished("daily_cleanup")
    /\ \/ /\ price_history' = SweptHistory(price_history, now)
          /\ price_alerts' = SweptAlerts(price_alerts, now)
          /\ UNCHANGED << faults, error_log >>
       \/ /\ faults > 0
          /\ faults' = faults - 1
          /\ error_log' = Raised("daily_cleanup")
          /\ UNCHANGED << price_history, price_alerts >>
    /\ sweep_log' = [runs           |-> sweep_log.runs + 1,
                     ok             |-> faults' = faults,
                     at             |-> now,
                     history_before |-> price_history,
                     history_after  |-> price_history',
                     alerts_before  |-> price_alerts,
                     alerts_after   |-> price_alerts']
    /\ UNCHANGED << now, due, is_running, sched_state, job_store, trigger_interval,
                    fired, info_job, lifecycle, status, stock_info, stock_prices >>
    /\ UNCHANGED << registry_vars, log_vars >>
    /\ UNCHANGED << config, spot_tables, web_scheduler >>

(***************************************************************************)
(* The orchestrator: constructed on the Monday morning, then started and   *)
(* stopped by its caller while time passes and the scheduler runs the jobs.*)
(***************************************************************************)
\* remove_symbol(symbol) for each symbol of the sequence in turn
RECURSIVE RemoveEach(_, _)
RemoveEach(list, symbols) ==
    IF symbols = << >> THEN list
    ELSE RemoveEach(IF Contains(list, Head(symbols))
                    THEN RemoveFirst(list, Head(symbols)) ELSE list,
                    Tail(symbols))

\* The orchestrator is followed from the state in which its caller, after
\* constructing it, has called remove_symbol for six of the default symbols:
\* symbols_to_monitor is << "000001", "000858", "600519", "000858" >>.
Unfollowed == << "000002", "002415", "600036", "600887", "002142", "300750" >>

Followed == RemoveEach(DEFAULT_STOCK_SYMBOLS, Unfollowed)

Init == Configured(Timeline[1], 0, Followed)

Next ==
    \/ Advance
    \/ StartCall
    \/ InitialStockInfoUpdate
    \/ StopCall
    \/ StopReturn
    \/ \E job \in JobIds : Submit(job)
    \/ UpdateRealtimePrices
    \/ UpdateStockInfo
    \/ MonitorAlerts
    \/ CheckMarketHours
    \/ DailyCleanup

Spec == Init /\ [][Next]_vars

(***************************************************************************)
(* The data path: the orchestrator started during the Monday morning       *)
(* session or on the Saturday, its interval jobs run by the scheduler,     *)
(* with a provider and a store that may fail.                              *)
(***************************************************************************)
InitData ==
    \E t \in { Instant(0, 9, 30, 30, 0), Instant(5, 10, 0, 0, 0) } :
        Configured(t, MaxFaults, Followed)

NextData ==
    \/ StartCall
    \/ InitialStockInfoUpdate
    \/ \E job \in IntervalJobs : Submit(job)
    \/ UpdateRealtimePrices
    \/ UpdateStockInfo
    \/ MonitorAlerts

SpecData == InitData /\ [][NextData]_vars

(***************************************************************************)
(* Properties of the alert evaluation and of the refresh jobs, under       *)
(* SpecData.                                                               *)
(***************************************************************************)
\* the alert a snapshot calls for: none below the threshold, otherwise its
\* fields apart from the time of the insert
AlertsCalledFor(rows) ==
    LET over == SelectSeq(rows,
                    LAMBDA r : \/ r.change_percent >= PRICE_CHANGE_THRESHOLD
                               \/ r.change_percent <= -PRICE_CHANGE_THRESHOLD)
    IN  [i \in 1..Len(over) |->
            [symbol         |-> over[i].symbol,
             alert_type     |-> IF over[i].change_percent > 0 THEN "gain" ELSE "loss",
             threshold      |-> PRICE_CHANGE_THRESHOLD,
             current_change |-> over[i].change_percent]]

\* the fields of alert rows apart from the time of the insert
AlertFields(rows) ==
    [i \in 1..Len(rows) |->
        [symbol         |-> rows[i].symbol,
         alert_type     |-> rows[i].alert_type,
         threshold      |-> rows[i].threshold,
         current_change |-> rows[i].current_change]]

\* C2: one run of _monitor_alerts appends, for the latest snapshots it
\* examined and in their order, an alert exactly for those whose change is
\* >= the threshold or <= minus the threshold, of type gain when the change
\* is positive and loss otherwise, recording the configured threshold and
\* the signed change; it changes no earlier alert.
C2_AlertsAtThreshold ==
    alert_log.runs > 0 =>
        AlertFields(alert_log.alerts_after)
            = AlertFields(alert_log.alerts_before) \o AlertsCalledFor(alert_log.examined)

\* a complete run over snapshots of +6.2%, +4.9% and -7.0% has appended one
\* gain alert for the first and one loss alert for the last
C2_Witness ==
    /\ alert_log.runs > 0
    /\ ~alert_log.aborted
    /\ { r.change_percent : r \in Range(alert_log.examined) } = { 62, 49, -70 }
    /\ Len(alert_log.alerts_after) = Len(alert_log.alerts_before) + 2
    /\ \E a \in Range(alert_log.alerts_after) :
            a.current_change = 62 /\ a.alert_type = "gain"
    /\ \E a \in Range(alert_log.alerts_after) :
            a.current_change = -70 /\ a.alert_type = "loss"

\* C6: when the session is open and the response omits some requested
\* symbols, a run of _update_realtime_prices that meets no store error
\* writes one snapshot and one history point for each requested symbol the
\* response lists and none for the others.
C6_OmittedSymbolsSkipped ==
    ( /\ price_log.runs > 0
      /\ price_log.open
      /\ price_log.errors = 0
      /\ \E s \in Range(price_log.requested) : s \notin price_log.present )
    => \A s \in Range(price_log.requested) :
          /\ Count(price_log.snapshots, s) = (IF s \in price_log.present THEN 1 ELSE 0)
          /\ Count(price_log.history, s) = (IF s \in price_log.present THEN 1 ELSE 0)

\* C7: a run of _update_stock_info that has ended has fetched every symbol
\* of the Monitoring Set, whatever failed for an earlier symbol.
C7_InfoRefreshContinues ==
    info_log.done => info_log.fetched = symbols_to_monitor

(***************************************************************************)
(* Properties of the scheduling, under Spec.                               *)
(***************************************************************************)
\* the instant 60 seconds before t
MinuteBefore(t) ==
    IF t.minute > 0 THEN [t EXCEPT !.minute = @ - 1]
    ELSE IF t.hour > 0 THEN [t EXCEPT !.hour = @ - 1, !.minute = 59]
    ELSE [t EXCEPT !.day = (@ + 6) % 7, !.hour = 23, !.minute = 59]

\* the interval of the price job that goes with a session state
CadenceOf(open) == IF open THEN REALTIME_UPDATE_INTERVAL ELSE OFF_MARKET_INTERVAL

\* C8: when _check_market_hours completes, the interval of the price job is
\* the configured one if the session is open at that check and 300 s if it
\* is closed; and once the scheduler has run for 60 s, with the session
\* state unchanged over the last 60 s and the check of the current minute
\* done, the interval is the one of the current session state.
C8_CadenceFollowsSession ==
    /\ check_log.runs > 0 =>
            check_log.interval = CadenceOf(IsMarketHours(check_log.at))
    /\ ( /\ sched_state = "running"
         /\ "realtime_price_update" \in job_store
         /\ "market_hours_check" \notin due
         /\ instances["market_hours_check"] = 0
         /\ Stamp(now) - Stamp(start_log.at) >= 60
         /\ IsMarketHours(MinuteBefore(now)) = IsMarketHours(now) )
       => trigger_interval = CadenceOf(IsMarketHours(now))

\* the check at the opening has moved the interval from 300 s to the
\* configured one
C8_Witness ==
    /\ check_log.runs > 0
    /\ IsMarketHours(check_log.at)
    /\ check_log.previous = OFF_MARKET_INTERVAL
    /\ check_log.interval = REALTIME_UPDATE_INTERVAL
    /\ trigger_interval = REALTIME_UPDATE_INTERVAL

\* C9: at most one execution of each job is in progress.
C9_SingleFlight == \A job \in JobIds : instances[job] <= 1

\* executions of the price job and of the session check are in progress
\* together, one of each
C9_Witness ==
    /\ instances["realtime_price_update"] = 1
    /\ instances["market_hours_check"] = 1

\* C10: no execution of a periodic job has begun between a start() that
\* found the orchestrator stopped and the end of its initial info refresh.
C10_NoJobBeforeInitialRefresh == start_log.jobs_during_initial = {}

(***************************************************************************)
(* The lifecycle: start() and stop() called in any order by one caller     *)
(* during the Monday morning session, while the scheduler runs the         *)
(* interval jobs; no provider or store error.                              *)
(***************************************************************************)
InitLifecycle == Configured(Instant(0, 9, 30, 30, 0), 0, Followed)

NextLifecycle ==
    \/ StartCall
    \/ InitialStockInfoUpdate
    \/ StopCall
    \/ StopIgnored
    \/ StopReturn
    \/ \E job \in IntervalJobs : Submit(job)
    \/ UpdateRealtimePrices
    \/ UpdateStockInfo
    \/ MonitorAlerts

SpecLifecycle == InitLifecycle /\ [][NextLifecycle]_vars

\* what a call of start() or stop() that is ignored must leave alone
LifecycleState ==
    << is_running, sched_state, job_store, lifecycle, due, trigger_interval,
       instances, fired, info_job, symbols_to_monitor, stock_info,
       stock_prices, price_history, price_alerts,
       start_log.at, start_log.initial_done, start_log.last >>

\* C11: start() on a running orchestrator and stop() on a stopped one change
\* nothing: the scheduler is not started again, no second initial refresh
\* begins and is_running keeps its value; and whenever no stop() is in
\* progress, is_running is true exactly when the last call that took effect
\* was start().
C11_IdempotentLifecycle ==
    /\ [][ /\ (start_log'.starts > start_log.starts /\ is_running)
                => UNCHANGED LifecycleState
           /\ (start_log'.ignored # start_log.ignored /\ ~is_running)
                => UNCHANGED LifecycleState ]_vars
    /\ [](lifecycle.pc # "stopping" => (is_running <=> start_log.last = "start"))

\* a stop() on the stopped orchestrator and a start() on the running one have
\* both been ignored, and the orchestrator runs
C11_Witness ==
    /\ start_log.ignored = { "start", "stop" }
    /\ start_log.last = "start"
    /\ is_running

\* C12: once stop() has returned, every execution that was begun has run to
\* its end, and no execution of any job begins while the orchestrator stays
\* stopped.
C12_StopSemantics ==
    /\ [][ (lifecycle.pc = "idle" /\ ~is_running) => fired' = fired ]_vars
    /\ []( (lifecycle.pc = "idle" /\ ~is_running) =>
              /\ \A j \in JobIds : instances[j] = 0
              /\ price_log.runs = fired["realtime_price_update"]
              /\ alert_log.runs = fired["alert_monitoring"]
              /\ fired["stock_info_update"] > 0 => info_log.done )

\* stop() has been called while the price job and the info job were in
\* progress, and waits for them
C12_Witness ==
    /\ lifecycle.pc = "stopping"
    /\ instances["realtime_price_update"] = 1
    /\ instances["stock_info_update"] = 1
    /\ info_job.idx > 1

(***************************************************************************)
(* Failures: the orchestrator constructed during the Monday morning        *)
(* session, or after it and followed to the cleanup of the next night,     *)
(* with a provider and a store that may fail in any handler.               *)
(***************************************************************************)
InitFaults ==
    \E t \in { Instant(0, 10, 0, 0, 0), Timeline[7] } :
        Configured(t, MaxFaults, Followed)

NextFaults ==
    \/ Advance
    \/ StartCall
    \/ InitialStockInfoUpdate
    \/ \E job \in JobIds : Submit(job)
    \/ UpdateRealtimePrices
    \/ UpdateStockInfo
    \/ MonitorAlerts
    \/ CheckMarketHours
    \/ DailyCleanup

SpecFaults == InitFaults /\ [][NextFaults]_vars

\* C13: no provider or store error gets out of a job body or of start(); and
\* a step in which an error is raised leaves the scheduler running with every
\* job still in its job store, begins no execution and ends none but the one
\* that failed.
C13_FailureIsolation ==
    /\ [](error_log.escaped = {})
    /\ [][ error_log' # error_log =>
             /\ UNCHANGED << sched_state, is_running, job_store, lifecycle.pc >>
             /\ \A j \in JobIds : instances'[j] <= instances[j]
             /\ \A j \in JobIds :
                   instances'[j] < instances[j] => j \in error_log'.caught ]_vars

\* the price job has caught a store error in its first execution and has
\* completed a second one without error
C13_Witness ==
    /\ "realtime_price_update" \in error_log.caught
    /\ fired["realtime_price_update"] = 2
    /\ price_log.runs = 2
    /\ price_log.open
    /\ price_log.errors = 0

\* C14: in a price refresh during the session, every returned record none of
\* whose two writes failed has its snapshot and its history point written,
\* whatever failed for another record of the cycle.
C14_SiblingWrites ==
    price_log.open =>
        LET unharmed == { i \in 1..Len(price_log.returned) :
                            /\ << i, "snapshot" >> \notin price_log.failed
                            /\ << i, "history" >> \notin price_log.failed }
        IN  \A s \in Range(price_log.returned) :
              LET due_rows == Cardinality({ i \in unharmed : price_log.returned[i] = s })
              IN  /\ Count(price_log.snapshots, s) >= due_rows
                  /\ Count(price_log.history, s) >= due_rows

\* the snapshot of the first of four returned records failed, and the
\* snapshots and history points of the three others were written
C14_Witness ==
    /\ price_log.open
    /\ Len(price_log.returned) = 4
    /\ price_log.failed = { << 1, "snapshot" >> }
    /\ Len(price_log.snapshots) = 3
    /\ Len(price_log.history) = 3

(***************************************************************************)
(* The retention sweep: the orchestrator constructed on the Monday at      *)
(* 11:31 over a database file that earlier runs have filled, started, and  *)
(* followed to the cleanup of 03:00 the next night.                        *)
(***************************************************************************)
\* rows a table holds at construction
MaxRows == 2

\* the ages, in seconds at the cleanup of 03:00, of the rows the file may
\* hold for a retention of that many days: a second more than the
\* retention, the retention itself, four and eight hours less, and a day
StoredAges(days) ==
    { days * 86400 + 1, days * 86400, days * 86400 - 4 * 3600,
      days * 86400 - 8 * 3600, 86400 }

\* the timestamps CURRENT_TIMESTAMP gave those rows
StoredStamps(days) ==
    { Stamp(Timeline[Len(Timeline)]) - age : age \in StoredAges(days) }

\* rowid order is the order of the inserts: timestamps do not decrease
StoredRows(stamps) ==
    { seq \in UNION { [1..n -> stamps] : n \in 0..MaxRows } :
        \A i \in 1..(Len(seq) - 1) : seq[i] <= seq[i + 1] }

StoredHistory ==
    { [i \in 1..Len(seq) |->
          [symbol |-> "000001", change_percent |-> 20, timestamp |-> seq[i]]] :
      seq \in StoredRows(StoredStamps(HistoryRetentionDays)) }

StoredAlerts ==
    { [i \in 1..Len(seq) |->
          [symbol |-> "000001", alert_type |-> "gain",
           threshold |-> PRICE_CHANGE_THRESHOLD, current_change |-> 62,
           triggered_at |-> seq[i]]] :
      seq \in StoredRows(StoredStamps(AlertRetentionDays)) }

InitSweep ==
    \E history \in StoredHistory, alerts \in StoredAlerts :
        ConstructedOver(DefaultConfig, Timeline[7], 0, Followed, history, alerts)

NextSweep ==
    \/ Advance
    \/ StartCall
    \/ InitialStockInfoUpdate
    \/ \E job \in { "market_hours_check", "daily_cleanup" } : Submit(job)
    \/ CheckMarketHours
    \/ DailyCleanup

SpecSweep == InitSweep /\ [][NextSweep]_vars

\* a row with that timestamp is more than that many days old at instant at
OlderThan(stamp, at, days) ==
    \/ stamp < Stamp(at) - days * 86400
    \/ stamp = Stamp(at) - days * 86400 /\ at.microsecond > 0

\* C15: a successful run of _daily_cleanup leaves exactly the history points
\* that are not more than 30 days old and exactly the alerts that are not
\* more than 7 days old, in their order.
C15_SweepExact ==
    (sweep_log.runs > 0 /\ sweep_log.ok) =>
        /\ sweep_log.history_after =
              SelectSeq(sweep_log.history_before,
                        LAMBDA r : ~OlderThan(r.timestamp, sweep_log.at,
                                              HistoryRetentionDays))
        /\ sweep_log.alerts_after =
              SelectSeq(sweep_log.alerts_before,
                        LAMBDA r : ~OlderThan(r.triggered_at, sweep_log.at,
                                              AlertRetentionDays))

FollowedPair == RemoveEach(Followed, << "000858", "000858" >>)

\* and after remove_symbol('600519')
FollowedOne == RemoveEach(FollowedPair, << "600519" >>)

InitCycle ==
    \E symbols \in { FollowedPair, FollowedOne } :
        ConstructedFor({ MarketC }, DefaultConfig, Instant(0, 10, 0, 0, 0),
                       MaxFaults, symbols, << >>, << >>)

NextCycle ==
    \/ StartCall
    \/ InitialStockInfoUpdate
    \/ \E job \in { "realtime_price_update", "alert_monitoring" } : Submit(job)
    \/ UpdateRealtimePrices
    \/ MonitorAlerts
    \/ \E t \in Threads :
          \/ CallRemoveSymbol(t, "000001")
          \/ RemoveSymbolTest(t)
          \/ RemoveSymbolDo(t)

SpecCycle == InitCycle /\ [][NextCycle]_vars

\* C17: following 000001 and 600519 over a store that was empty, when one
\* run of _update_realtime_prices has stored the quotes of 6.0% and 2.0%
\* without an error, the first run of _monitor_alerts, if it meets no error,
\* leaves exactly one alert: 000001, gain.
C17_OneCycleOneAlert ==
    [][ ( /\ symbols_to_monitor = FollowedPair
          /\ price_log.runs = 1
          /\ price_log.open
          /\ price_log.errors = 0
          /\ [i \in 1..Len(stock_prices) |->
                 << stock_prices[i].symbol, stock_prices[i].change_percent >>]
               = << << "000001", 60 >>, << "600519", 20 >> >>
          /\ alert_log.runs = 0
          /\ price_alerts = << >>
          /\ alert_log'.runs = 1
          /\ ~alert_log'.aborted )
        => AlertFields(price_alerts')
             = << [symbol |-> "000001", alert_type |-> "gain",
                   threshold |-> PRICE_CHANGE_THRESHOLD, current_change |-> 60] >>
      ]_vars

\* C19: every alert a run of _monitor_alerts appends is for a symbol that is
\* in symbols_to_monitor at that run.
C19_AlertsOnlyForMonitored ==
    [][ alert_log'.runs = alert_log.runs + 1
        => \A i \in (Len(price_alerts) + 1)..Len(price_alerts') :
              price_alerts'[i].symbol \in Range(symbols_to_monitor) ]_vars

\* the symbol has a snapshot of the greatest timestamp of its symbol whose
\* change is at or over the threshold
LatestOverThreshold(symbol) ==
    \E i \in 1..Len(stock_prices) :
        /\ stock_prices[i].symbol = symbol
        /\ \A j \in 1..Len(stock_prices) :
              stock_prices[j].symbol = symbol
              => stock_prices[j].timestamp <= stock_prices[i].timestamp
        /\ Abs(stock_prices[i].change_percent) >= config.threshold

\* C18: under SpecData, a run of _monitor_alerts that meets no error, every
\* monitored symbol having its stock_info row, appends exactly one alert for
\* each monitored symbol whose latest snapshot is at or over the threshold
\* and none for the others.
C18_OneAlertPerSymbolPerRun ==
    [][ ( /\ alert_log'.runs = alert_log.runs + 1
          /\ ~alert_log'.aborted
          /\ Range(symbols_to_monitor) \subseteq stock_info )
        => \A s \in Range(symbols_to_monitor) :
              Cardinality({ i \in (Len(price_alerts) + 1)..Len(price_alerts') :
                              price_alerts'[i].symbol = s })
                = (IF LatestOverThreshold(s) THEN 1 ELSE 0) ]_vars

(***************************************************************************)
(* The configuration: the orchestrator constructed during the Monday       *)
(* morning session with the environment giving the defaults, a negative    *)
(* PRICE_CHANGE_THRESHOLD (-1.0) or a REALTIME_UPDATE_INTERVAL of 0.       *)
(***************************************************************************)
Configs ==
    { DefaultConfig,
      [DefaultConfig EXCEPT !.threshold = -10],
      [DefaultConfig EXCEPT !.interval = 0] }

InitConfig ==
    \E cfg \in Configs :
        ConfiguredWith(cfg, Instant(0, 9, 30, 30, 0), 0, Followed)

NextConfig ==
    \/ StartCall
    \/ InitialStockInfoUpdate
    \/ \E job \in { "realtime_price_update", "alert_monitoring" } : Submit(job)
    \/ UpdateRealtimePrices
    \/ MonitorAlerts

SpecConfig == InitConfig /\ [][NextConfig]_vars

\* C20: with a negative threshold or a refresh interval that is not
\* positive, the orchestrator is never running and no job ever runs.
C20_InvalidConfigIsFatal ==
    (config.threshold < 0 \/ config.interval <= 0) => (~is_running /\ Runs = 0)

(***************************************************************************)
(* The price refresh in and out of the sessions: the orchestrator          *)
(* constructed at the last instant of the Monday morning session,          *)
(* 11:30:00, started, and followed past the end of the session, with a     *)
(* provider and a store that may fail.                                     *)
(***************************************************************************)
InitTicks == Configured(Timeline[5], MaxFaults, Followed)

NextTicks ==
    \/ Advance
    \/ StartCall
    \/ InitialStockInfoUpdate
    \/ Submit("realtime_price_update")
    \/ UpdateRealtimePrices

SpecTicks == InitTicks /\ [][NextTicks]_vars

\* C21: a run of _update_realtime_prices while the session is closed makes
\* no provider call and leaves the four tables of the store as they were.
C21_ClosedTickWritesNothing ==
    [][ (price_log'.runs = price_log.runs + 1 /\ ~IsMarketHours(now))
        => /\ UNCHANGED table_vars
           /\ UNCHANGED faults
           /\ ~price_log'.open
           /\ price_log'.present = {}
           /\ price_log'.returned = << >> ]_vars

\* a run with the session closed, after a run with the session open has
\* written snapshots and history points
C21_Witness ==
    /\ price_log.runs = 2
    /\ ~price_log.open
    /\ ~IsMarketHours(now)
    /\ stock_prices # << >>
    /\ price_history # << >>

(***************************************************************************)
(* Snapshots and stock_info rows: the orchestrator following 000001,       *)
(* started during the Monday morning session, while a caller adds and      *)
(* removes 688981, with a provider that quotes both and whose info call    *)
(* may fail. The caller, the caller of start() and the scheduler's threads *)
(* keep running: a step that stays possible is taken.                      *)
(***************************************************************************)
InitOrphan ==
    ConstructedFor({ MarketD }, DefaultConfig, Instant(0, 10, 0, 0, 0),
                   MaxFaults, FollowedOne, << >>, << >>)

NextOrphan ==
    \/ StartCall
    \/ InitialStockInfoUpdate
    \/ \E job \in { "realtime_price_update", "stock_info_update" } : Submit(job)
    \/ UpdateRealtimePrices
    \/ UpdateStockInfo
    \/ \E t \in { "t1" } :
          \/ CallAddSymbol(t, "688981")
          \/ AddSymbolTest(t)
          \/ AddSymbolAppend(t)
          \/ AddSymbolInfo(t)
          \/ CallRemoveSymbol(t, "688981")
          \/ RemoveSymbolTest(t)
          \/ RemoveSymbolDo(t)

SpecOrphan == InitOrphan /\ [][NextOrphan]_vars /\ WF_vars(NextOrphan)

\* the symbol has a snapshot or a history point
HasPrices(symbol) ==
    \/ \E i \in 1..Len(stock_prices) : stock_prices[i].symbol = symbol
    \/ \E i \in 1..Len(price_history) : price_history[i].symbol = symbol

\* Whatever the number of runs and calls, a step gives 688981 its stock_info
\* row only while the symbol is in the Monitoring Set: once it has been
\* removed, only another add_symbol call can bring the row.
InfoRowOnlyWhileFollowed ==
    [][ ("688981" \in stock_info' /\ "688981" \notin stock_info)
        => Contains(symbols_to_monitor, "688981") ]_vars

MainSchedulerIdle ==
    UNCHANGED << now, due, symbols_to_monitor, is_running, sched_state, job_store,
                 trigger_interval, instances, fired, info_job, lifecycle,
                 stock_prices, price_history, price_alerts, status, threads,
                 price_log, alert_log, check_log, info_log, start_log, error_log,
                 config, spot_tables, sweep_log >>

\* POST /api/scheduler/symbols: scheduler.add_symbol(symbol); an error of
\* the store is answered with status 500
ApiAddSymbol(symbol) ==
    /\ web_scheduler.calls < MaxCalls
    /\ IF Contains(web_scheduler.symbols_to_monitor, symbol)
       THEN /\ web_scheduler' = [web_scheduler EXCEPT !.calls = @ + 1]
            /\ UNCHANGED << stock_info, faults >>
       ELSE /\ web_scheduler' =
                  [web_scheduler EXCEPT !.calls = @ + 1,
                      !.symbols_to_monitor = Append(@, symbol)]
            /\ \/ /\ stock_info' = stock_info \cup { symbol }
                  /\ UNCHANGED faults
               \/ /\ faults > 0
                  /\ faults' = faults - 1
                  /\ UNCHANGED stock_info
    /\ MainSchedulerIdle

\* DELETE /api/scheduler/symbols/{symbol}: scheduler.remove_symbol(symbol)
ApiRemoveSymbol(symbol) ==
    /\ web_scheduler.calls < MaxCalls
    /\ web_scheduler' =
          [web_scheduler EXCEPT !.calls = @ + 1,
              !.symbols_to_monitor =
                  IF Contains(@, symbol) THEN RemoveFirst(@, symbol) ELSE @]
    /\ UNCHANGED << stock_info, faults >>
    /\ MainSchedulerIdle

\* GET /api/scheduler/status: scheduler.get_scheduler_status()
ApiStatus ==
    /\ web_scheduler.calls < MaxCalls
    /\ web_scheduler' =
          [web_scheduler EXCEPT !.calls = @ + 1,
              !.status = [is_running        |-> web_scheduler.is_running,
                          monitored_symbols |-> Len(web_scheduler.symbols_to_monitor),
                          market_hours      |-> IsMarketHours(now)]]
    /\ UNCHANGED << stock_info, faults >>
    /\ MainSchedulerIdle

InitWeb ==
    ConstructedFor({ MarketD }, DefaultConfig, Instant(0, 10, 0, 0, 0),
                   MaxFaults, DEFAULT_STOCK_SYMBOLS, << >>, << >>)

NextWeb ==
    \/ StartCall
    \/ InitialStockInfoUpdate
    \/ Submit("realtime_price_update")
    \/ UpdateRealtimePrices
    \/ ApiAddSymbol("688981")
    \/ ApiRemoveSymbol("000001")
    \/ ApiStatus

SpecWeb == InitWeb /\ [][NextWeb]_vars

\* C23: while the DataScheduler that main.py started is running, a price
\* refresh during the session requests the Monitoring Set the routes have
\* left, and the status route reports that the scheduler is running.
C23_ApiDrivesStartedScheduler ==
    [][ /\ ( /\ is_running
             /\ price_log'.runs = price_log.runs + 1
             /\ IsMarketHours(now) )
           => price_log'.requested = web_scheduler.symbols_to_monitor
        /\ ( /\ is_running
             /\ web_scheduler'.status # web_scheduler.status )
           => web_scheduler'.status.is_running ]_vars

(***************************************************************************)
(* The info refresh against the registry: the orchestrator following       *)
(* 000001 and 600519, started, its info job run by the scheduler, while a  *)
(* caller removes 000001 or adds 688981. No provider or store call fails,  *)
(* and 600519 is in the Monitoring Set throughout.                         *)
(***************************************************************************)
InitIterate == Configured(Instant(0, 10, 0, 0, 0), 0, FollowedPair)

NextIterate ==
    \/ StartCall
    \/ InitialStockInfoUpdate
    \/ Submit("stock_info_update")
    \/ UpdateStockInfo
    \/ \E t \in { "t1" } :
          \/ CallAddSymbol(t, "688981")
          \/ AddSymbolTest(t)
          \/ AddSymbolAppend(t)
          \/ AddSymbolInfo(t)
          \/ CallRemoveSymbol(t, "000001")
          \/ RemoveSymbolTest(t)
          \/ RemoveSymbolDo(t)

SpecIterate == InitIterate /\ [][NextIterate]_vars

\* C24: under SpecIterate, a run of _update_stock_info that has ended has
\* fetched 600519 exactly once, and once _initial_stock_info_update has
\* ended the stock_info row of 600519 exists.
C24_RefreshCoversStayingSymbols ==
    /\ info_log.done => Count(info_log.fetched, "600519") = 1
    /\ start_log.initial_done => "600519" \in stock_info

(***************************************************************************)
(* Snapshots before history points, under SpecData.                        *)
(***************************************************************************)
\* C25: every symbol has at most as many history points as snapshots, in
\* the tables and among the rows the last price refresh wrote, and a record
\* whose snapshot insert raised has no history point from that run.
C25_HistoryFollowsSnapshot ==
    /\ \A s \in Range(symbols_to_monitor) :
          /\ Count(SymbolsOf(price_history), s) <= Count(SymbolsOf(stock_prices), s)
          /\ Count(price_log.history, s) <= Count(price_log.snapshots, s)
    /\ Len(price_log.history)
         <= Len(price_log.returned)
              - Cardinality({ f \in price_log.failed : f[2] = "snapshot" })

\* a refresh of four records in which the snapshot insert of the second
\* raised: three snapshots and three history points
C25_Witness ==
    /\ price_log.open
    /\ Len(price_log.returned) = 4
    /\ price_log.failed = { << 2, "snapshot" >> }
    /\ Len(stock_prices) = 3
    /\ Len(price_history) = 3
    /\ SymbolsOf(price_history) = SymbolsOf(stock_prices)

====
